---------------------------- MODULE Spec2Model ----------------------------
(***************************************************************************)
(* Model of the Paradox Movie API (src/api.py): the /search handler with   *)
(* its text helpers (normalize, extract_year, score_item), the /file       *)
(* resolver and the health route, over a read-only movies table.           *)
(*                                                                         *)
(* A text (a Python str) is the sequence of its Unicode code points, so    *)
(* every character a request or a row can hold has a value in the model;   *)
(* Str("..") is the text written as a string of printable ASCII.           *)
(* A nullable column is <<>> (SQL NULL / Python None) or <<value>>.        *)
(***************************************************************************)
EXTENDS Integers, Sequences, FiniteSets, TLC

\* catalog: the movies table; req, resp: the request handled and its response;
\* query_words, query_year, scored: the locals of search when it returns;
\* row_scores: the score search computed for each fetched row, in fetch order
VARIABLES catalog, req, resp, query_words, query_year, row_scores, scored

vars == <<catalog, req, resp, query_words, query_year, row_scores, scored>>

(***************************************************************************)
(* Bounds of the explored inputs.                                          *)
(***************************************************************************)
\* a raw query is the concatenation of at most MaxPieces pieces
MaxPieces == 3
\* requested page numbers range over 0..MaxPage
MaxPage == 5

(***************************************************************************)
(* Characters and texts.                                                   *)
(***************************************************************************)
\* the ASCII characters of codes 32..95 and 97..126, in code order
AsciiPrintable ==
    " !\"#$%&'()*+,-./0123456789:;<=>?@ABCDEFGHIJKLMNOPQRSTUVWXYZ[\\]^_abcdefghijklmnopqrstuvwxyz{|}~"

CharAt(s, i) == SubSeq(s, i, i)

CodeOf ==
    [c \in {CharAt(AsciiPrintable, i) : i \in 1..Len(AsciiPrintable)} |->
        LET i == CHOOSE j \in 1..Len(AsciiPrintable) : CharAt(AsciiPrintable, j) = c
        IN  IF i <= 64 THEN 31 + i ELSE 32 + i]

\* the text written as a string of the characters of AsciiPrintable
Str(s) == [i \in 1..Len(s) |-> CodeOf[CharAt(s, i)]]

Space == 32

\* a-z, A-Z, 0-9
LowerSet == 97..122
UpperSet == 65..90
DigitSet == 48..57

\* the code points Python's \s matches in a str pattern, which are those
\* str.split() and str.strip() take for whitespace (str.isspace()):
\* \t \n \v \f \r, U+001C..U+001F, the space, U+0085, U+00A0, U+1680,
\* U+2000..U+200A, U+2028, U+2029, U+202F, U+205F, U+3000
SpaceSet ==
    (9..13) \cup (28..31) \cup {32, 133, 160, 5760} \cup (8192..8202)
    \cup {8232, 8233, 8239, 8287, 12288}

\* the characters \w matches among the ASCII characters
WordSet == LowerSet \cup UpperSet \cup DigitSet \cup {95}

\* the characters the pattern [^a-z0-9\s] leaves alone
KeepSet == LowerSet \cup DigitSet \cup SpaceSet

RECURSIVE Concat(_)
Concat(seqs) == IF seqs = <<>> THEN <<>> ELSE Head(seqs) \o Concat(Tail(seqs))

\* Python's `w in text` for strings
Contains(text, w) ==
    \E i \in 0..(Len(text) - Len(w)) : SubSeq(text, i + 1, i + Len(w)) = w

\* str.isdigit() on a word of a normalized text (characters a-z and 0-9)
IsDigit(w) == Len(w) > 0 /\ \A i \in 1..Len(w) : w[i] \in DigitSet

\* str.split(): the maximal runs of non-whitespace characters, in order
Split(s) ==
    LET n == Len(s)
        isSp(i) == s[i] \in SpaceSet
        starts == SelectSeq([i \in 1..n |-> i],
                            LAMBDA i : ~isSp(i) /\ (i = 1 \/ isSp(i - 1)))
        stop(i) == CHOOSE j \in i..n :
                      /\ \A k \in i..j : ~isSp(k)
                      /\ (j = n \/ isSp(j + 1))
    IN  [k \in 1..Len(starts) |-> SubSeq(s, starts[k], stop(starts[k]))]

\* " ".join(words)
RECURSIVE Join(_)
Join(ws) ==
    IF ws = <<>> THEN <<>>
    ELSE IF Len(ws) = 1 THEN ws[1]
    ELSE ws[1] \o <<Space>> \o Join(Tail(ws))

(***************************************************************************)
(* Search helpers.                                                         *)
(***************************************************************************)
\* what text.lower() followed by re.sub(r"[^a-z0-9\s]", " ", text) makes of
\* one character. str.lower() follows the Unicode case mapping: A-Z lower to
\* a-z; U+212A (Kelvin sign) lowers to "k"; U+0130 lowers to "i" followed by
\* U+0307, which the pattern replaces; every other character lowers to
\* characters that are neither a-z, 0-9 nor whitespace unless it is one of
\* them already, and the pattern replaces what is neither.
LowerStripChar(c) ==
    IF c \in UpperSet THEN <<c + 32>>
    ELSE IF c = 8490 THEN <<107>>
    ELSE IF c = 304 THEN <<105, Space>>
    ELSE IF c \in KeepSet THEN <<c>>
    ELSE <<Space>>

\* text = text.lower(); text = re.sub(r"[^a-z0-9\s]", " ", text)
LowerStripPunct(text) == Concat([i \in 1..Len(text) |-> LowerStripChar(text[i])])

\* re.sub(r"\s+", " ", text)
CollapseSpaces(text) ==
    LET isSp(i) == text[i] \in SpaceSet
        kept == SelectSeq([i \in 1..Len(text) |-> i],
                          LAMBDA i : ~isSp(i) \/ i = 1 \/ ~isSp(i - 1))
    IN  [k \in 1..Len(kept) |-> IF isSp(kept[k]) THEN Space ELSE text[kept[k]]]

\* str.strip()
Strip(text) ==
    LET n == Len(text)
        isSp(i) == text[i] \in SpaceSet
    IN  IF \A i \in 1..n : isSp(i) THEN <<>>
        ELSE SubSeq(text,
                    CHOOSE i \in 1..n : ~isSp(i) /\ \A j \in 1..(i - 1) : isSp(j),
                    CHOOSE i \in 1..n : ~isSp(i) /\ \A j \in (i + 1)..n : isSp(j))

normalize(text) ==
    IF text = <<>> THEN <<>>
    ELSE Strip(CollapseSpaces(LowerStripPunct(text)))

\* re.search(r"\b(19|20)\d{2}\b", text) on a normalized text: the leftmost
\* match, <<>> for None
extract_year(text) ==
    LET n == Len(text)
        isWord(i) == text[i] \in WordSet
        match(i) ==
            /\ i + 3 <= n
            /\ SubSeq(text, i, i + 1) \in {Str("19"), Str("20")}
            /\ text[i + 2] \in DigitSet
            /\ text[i + 3] \in DigitSet
            /\ (i = 1 \/ ~isWord(i - 1))
            /\ (i + 3 = n \/ ~isWord(i + 4))
        hits == {i \in 1..n : match(i)}
    IN  IF hits = {} THEN <<>>
        ELSE LET m == CHOOSE i \in hits : \A j \in hits : i <= j
             IN  <<SubSeq(text, m, m + 3)>>

\* faulty variant: words shorter than two characters are dropped
QueryWords_Significant(q_norm) == SelectSeq(Split(q_norm), LAMBDA w : Len(w) >= 2)

\* query_words = q_norm.split()
QueryWords(q_norm) == Split(q_norm)

\* faulty variant: the isdigit() skip is missing, digits-only words match too
RECURSIVE NameMatch_DigitsToo(_, _)
NameMatch_DigitsToo(ws, text) ==
    IF ws = <<>> THEN 0
    ELSE (IF Contains(text, Head(ws)) THEN 50 ELSE 0)
         + NameMatch_DigitsToo(Tail(ws), text)

\* faulty variant: a match takes 50 away instead of adding it
RECURSIVE NameMatch_Minus(_, _)
NameMatch_Minus(ws, text) ==
    IF ws = <<>> THEN 0
    ELSE (IF ~IsDigit(Head(ws)) /\ Contains(text, Head(ws)) THEN -50 ELSE 0)
         + NameMatch_Minus(Tail(ws), text)

\* the name-match loop of score_item: +50 for every non-numeric word found in text
RECURSIVE NameMatch(_, _)
NameMatch(ws, text) ==
    IF ws = <<>> THEN 0
    ELSE (IF ~IsDigit(Head(ws)) /\ Contains(text, Head(ws)) THEN 50 ELSE 0)
         + NameMatch(Tail(ws), text)

\* the year boost: an absent hint (None) adds nothing
YearBoost(year, text) ==
    IF year = <<>> \/ year[1] = <<>> THEN 0
    ELSE IF Contains(text, year[1]) THEN 25 ELSE -10

\* faulty variant: the 1080p branch is missing
QualityBoost_No1080(text) ==
    IF Contains(text, Str("720p")) THEN 5
    ELSE IF Contains(text, Str("480p")) THEN 2
    ELSE 0

QualityBoost(text) ==
    IF Contains(text, Str("1080p")) THEN 10
    ELSE IF Contains(text, Str("720p")) THEN 5
    ELSE IF Contains(text, Str("480p")) THEN 2
    ELSE 0

LanguageBoost(text) ==
    (IF Contains(text, Str("hindi")) THEN 5 ELSE 0)
    + (IF Contains(text, Str("english")) THEN 3 ELSE 0)

score_item(words, year, text) ==
    NameMatch(words, text) + YearBoost(year, text)
    + QualityBoost(text) + LanguageBoost(text)

(***************************************************************************)
(* The movies table.                                                       *)
(***************************************************************************)
NULL == <<>>
Some(v) == <<v>>

\* Python truthiness of a nullable text: None and "" are falsy
Truthy(o) == o # NULL /\ o[1] # <<>>

\* `o or ""` for a nullable text
OrEmpty(o) == IF Truthy(o) THEN o[1] ELSE <<>>

\* `a or b` for nullable values
OrElse(a, b) == IF Truthy(a) THEN a ELSE b

Movie(uid, post, chan, title, fname, dur, size, type) ==
    [uid |-> uid, post_id |-> post, channel_id |-> chan, title |-> title,
     file_name |-> fname, duration |-> dur, size |-> size, type |-> type]

M1 == Movie(Str("abc123"), 101, 7, Some(Str("Inception 2010 1080p")),
            Some(Str("inception.mkv")), 148, 2100, Str("video"))
M2 == Movie(Str("ABC123"), 102, 7, NULL, Some(Str("Matrix.1999.720p.Hindi.mkv")),
            136, 900, Str("document"))
M3 == Movie(Str("m3"), 103, 8, Some(Str("INCEPTION (2010) [1080p]")), NULL,
            148, 1800, Str("video"))
M4 == Movie(Str("x4"), 104, 8, NULL, NULL, 0, 0, Str("document"))
\* file_name: "A_Day english", a tab, "480p"
M5 == Movie(Str("e5"), 105, 9, Some(<<>>),
            Some(Str("A_Day english") \o <<9>> \o Str("480p")), 90, 300, Str("video"))
\* title: "AM", U+00C9, "LIE", U+00A0, U+212A (Kelvin sign), U+0130, "NG"
M6 == Movie(Str("a6"), 106, 9,
            Some(Str("AM") \o <<201>> \o Str("LIE") \o <<160, 8490, 304>> \o Str("NG")),
            Some(Str("amelie.avi")), 162, 700, Str("video"))

\* a second row with the uid of M4
M7 == Movie(Str("x4"), 107, 9, NULL, NULL, 5, 10, Str("video"))

\* the tables explored, each in the order the statement of search fetches
\* its rows; one holds two rows of the same uid
Catalogs == {<<>>, <<M4, M6, M7>>, <<M1, M2, M3, M4, M5>>, <<M5, M4, M3, M2, M1>>}

AllMovies == {M1, M2, M3, M4, M5, M6, M7}

(***************************************************************************)
(* GET /search                                                             *)
(***************************************************************************)
LimitMax == 20
DefaultLimit == 10
DefaultPage == 1

\* Query(..., min_length=1), Query(1, ge=1), Query(10, ge=1, le=20)
search_params_valid(q, page, limit) ==
    Len(q) >= 1 /\ page >= 1 /\ limit >= 1 /\ limit <= LimitMax

\* SELECT ... FROM movies WHERE title IS NOT NULL OR file_name IS NOT NULL
SelectSearchRows(cat) ==
    SelectSeq(cat, LAMBDA m : m.title # NULL \/ m.file_name # NULL)

\* normalize((title or "") + " " + (fname or ""))
CombinedText(m) == normalize(OrEmpty(m.title) \o <<Space>> \o OrEmpty(m.file_name))

\* CombinedText of every row of the explored tables, computed once
Haystack == [m \in AllMovies |-> CombinedText(m)]

\* combined = normalize(...): read from Haystack for the rows it holds
Combined(m) == IF m \in AllMovies THEN Haystack[m] ELSE CombinedText(m)

\* the score the handler computes for row m when the raw query is q
RecordScore(q, m) ==
    LET q_norm == normalize(q)
    IN  score_item(QueryWords(q_norm), extract_year(q_norm), Combined(m))

Candidate(m, score) ==
    [uid |-> m.uid, title |-> OrElse(m.title, m.file_name), duration |-> m.duration,
     size |-> m.size, type |-> m.type, score |-> score]

\* the loop over cur.fetchall(): rows with score > 0, in row order
RECURSIVE ScoreRows(_, _, _)
ScoreRows(rows, words, year) ==
    IF rows = <<>> THEN <<>>
    ELSE LET score == score_item(words, year, Combined(Head(rows)))
             rest == ScoreRows(Tail(rows), words, year)
         IN  IF score > 0 THEN <<Candidate(Head(rows), score)>> \o rest ELSE rest

\* faulty variant: ascending sort then reversed, rows of equal score swap
RECURSIVE SortByScore_TiesReversed(_)
SortByScore_TiesReversed(items) ==
    IF items = <<>> THEN <<>>
    ELSE LET n == Len(items)
             last == items[n]
             head == SortByScore_TiesReversed(SubSeq(items, 1, n - 1))
             before == SelectSeq(head, LAMBDA c : c.score > last.score)
             after == SelectSeq(head, LAMBDA c : c.score <= last.score)
         IN  before \o <<last>> \o after

\* list.sort(key=_score, reverse=True): descending, equal keys keep their order
RECURSIVE SortByScore(_)
SortByScore(items) ==
    IF items = <<>> THEN <<>>
    ELSE LET n == Len(items)
             last == items[n]
             head == SortByScore(SubSeq(items, 1, n - 1))
             before == SelectSeq(head, LAMBDA c : c.score >= last.score)
             after == SelectSeq(head, LAMBDA c : c.score < last.score)
         IN  before \o <<last>> \o after

\* math.ceil(n / d) for n >= 0, d >= 1
CeilDiv(n, d) == (n + d - 1) \div d

Max(a, b) == IF a >= b THEN a ELSE b

\* faulty variant: the max(1, ..) floor is missing
TotalPages_NoFloor(total_results, limit) == CeilDiv(total_results, limit)

TotalPages(total_results, limit) == Max(1, CeilDiv(total_results, limit))

\* faulty variant: the page is not clamped
ClampPage_None(page, total_pages) == page

ClampPage(page, total_pages) == IF page > total_pages THEN total_pages ELSE page

\* Python's seq[start:end]: a negative bound counts from the end, both are clipped
SliceBound(i, n) == IF i < 0 THEN Max(0, i + n) ELSE IF i > n THEN n ELSE i

PySlice(items, start, end) ==
    LET lo == SliceBound(start, Len(items))
        hi == SliceBound(end, Len(items))
    IN  IF lo < hi THEN SubSeq(items, lo + 1, hi) ELSE <<>>

\* faulty variant: start = page * limit
PageSlice_OffByOne(items, page, limit) ==
    LET start == page * limit
        end == start + limit
    IN  PySlice(items, start, end)

\* start = (page - 1) * limit; end = start + limit; scored[start:end]
PageSlice(items, page, limit) ==
    LET start == (page - 1) * limit
        end == start + limit
    IN  PySlice(items, start, end)

\* r.pop("_score", None)
PopScore(c) ==
    [uid |-> c.uid, title |-> c.title, duration |-> c.duration,
     size |-> c.size, type |-> c.type]

PopScores(items) == [i \in 1..Len(items) |-> PopScore(items[i])]

\* the list `scored` after the pop loop: page_results holds the very dicts of
\* scored[start:end], so those elements of scored lose their score too
PopOnPage(items, page, limit) ==
    LET start == (page - 1) * limit
        lo == SliceBound(start, Len(items))
        hi == SliceBound(start + limit, Len(items))
    IN  [k \in 1..Len(items) |->
            IF lo < k /\ k <= hi THEN PopScore(items[k]) ELSE items[k]]

\* the value of `score` (line 157) for every fetched row, in fetch order
RECURSIVE RowScores(_, _, _)
RowScores(rows, words, year) ==
    IF rows = <<>> THEN <<>>
    ELSE <<[uid |-> Head(rows).uid,
            score |-> score_item(words, year, Combined(Head(rows)))]>>
         \o RowScores(Tail(rows), words, year)

\* the handler: its locals and its response
search(cat, q, page, limit) ==
    IF ~search_params_valid(q, page, limit)
    THEN [resp |-> [status |-> 422], query_words |-> <<>>, query_year |-> NULL,
          row_scores |-> <<>>, scored |-> <<>>]
    ELSE
    LET q_norm == normalize(q)
        words == QueryWords(q_norm)
        year == extract_year(q_norm)
        ranked == SortByScore(ScoreRows(SelectSearchRows(cat), words, year))
        total_results == Len(ranked)
        total_pages == TotalPages(total_results, limit)
        eff_page == ClampPage(page, total_pages)
    IN  [resp |-> [status |-> 200, success |-> TRUE, query |-> q, page |-> eff_page,
                   limit |-> limit, total_results |-> total_results,
                   total_pages |-> total_pages,
                   results |-> PopScores(PageSlice(ranked, eff_page, limit))],
         query_words |-> words, query_year |-> year,
         row_scores |-> RowScores(SelectSearchRows(cat), words, year),
         scored |-> PopOnPage(ranked, eff_page, limit)]

(***************************************************************************)
(* GET /file and GET /                                                      *)
(***************************************************************************)
\* the columns uid, post_id, channel_id, title of a row
UidColumns(m) ==
    [uid |-> m.uid, post_id |-> m.post_id, channel_id |-> m.channel_id, title |-> m.title]

\* faulty variant: the uid is compared after normalization
SelectByUid_Normalized(cat, uid) ==
    LET hits == {i \in 1..Len(cat) : normalize(cat[i].uid) = normalize(uid)}
    IN  IF hits = {} THEN {<<>>} ELSE {<<UidColumns(cat[i])>> : i \in hits}

\* SELECT uid, post_id, channel_id, title FROM movies WHERE uid = ? LIMIT 1,
\* then fetchone(): the outcomes the statement can have. Without ORDER BY the
\* row kept by LIMIT 1 is whichever row of that very uid the query plan
\* reaches first, so every such row is an outcome; <<>> is "no row".
SelectByUid(cat, uid) ==
    LET hits == {i \in 1..Len(cat) : cat[i].uid = uid}
    IN  IF hits = {} THEN {<<>>} ELSE {<<UidColumns(cat[i])>> : i \in hits}

\* the responses the handler can give, one for each outcome of the statement
resolve(cat, uid) ==
    IF Len(uid) < 1 THEN {[status |-> 422]}
    ELSE {IF rows = <<>> THEN [status |-> 404, detail |-> Str("Invalid UID")]
          ELSE [status |-> 200, success |-> TRUE, uid |-> rows[1].uid,
                post_id |-> rows[1].post_id, channel_id |-> rows[1].channel_id,
                title |-> rows[1].title]
          : rows \in SelectByUid(cat, uid)}

health(cat) ==
    [status |-> 200, success |-> TRUE, api |-> Str("Paradox Movie API"),
     api_status |-> Str("online"), total_movies |-> Len(cat)]

(***************************************************************************)
(* Requests explored.                                                      *)
(***************************************************************************)
Pieces == {Str("inception"), Str("1999"), Str("A"), Str(" "), Str("!")}

RECURSIVE QueriesOf(_)
QueriesOf(n) ==
    IF n = 0 THEN {<<>>}
    ELSE LET shorter == QueriesOf(n - 1)
         IN  shorter \cup {s \o p : s \in shorter, p \in Pieces}

Queries == QueriesOf(MaxPieces)

\* the queries sent with an explicit page and limit; the last four are
\* U+00A0 alone, U+212A (Kelvin sign) alone, U+0130 "NCEPTION" U+2003 "1999"
\* and "am" U+00E9 "lie"
PagedQueries ==
    {<<>>, Str(" "), Str("!"), Str("A"), Str("1999"), Str("inception"), Str("Inception!"),
     Str("inception 1999"), Str("A 1999"), Str("2010 A"), Str("zzzzz"),
     <<160>>, <<8490>>, <<304>> \o Str("NCEPTION") \o <<8195>> \o Str("1999"),
     Str("am") \o <<233>> \o Str("lie")}

Pages == 0..MaxPage

Limits == {0, 1, 2, 3, LimitMax, LimitMax + 1}

Uids ==
    {<<>>, Str(" "), Str("abc123"), Str("ABC123"), Str("Abc123"), Str("abc123 "),
     Str("m3"), Str("x4"), Str("e5"), Str("a6"), Str("missing")}

NoRequest == [op |-> "none"]
NoResponse == [status |-> 0]

(***************************************************************************)
(* State machine.                                                          *)
(***************************************************************************)
Init ==
    /\ catalog \in Catalogs
    /\ req = NoRequest
    /\ resp = NoResponse
    /\ query_words = <<>>
    /\ query_year = NULL
    /\ row_scores = <<>>
    /\ scored = <<>>

\* GET /search?q=..&page=..&limit=..
SearchRequest ==
    \E q \in PagedQueries, page \in Pages, limit \in Limits :
        LET out == search(catalog, q, page, limit)
        IN  /\ req = NoRequest
            /\ req' = [op |-> "search", q |-> q, page |-> page, limit |-> limit]
            /\ resp' = out.resp
            /\ query_words' = out.query_words
            /\ query_year' = out.query_year
            /\ row_scores' = out.row_scores
            /\ scored' = out.scored
            /\ UNCHANGED catalog

\* GET /search?q=.. : page and limit take their defaults
DefaultSearchRequest ==
    \E q \in Queries :
        LET out == search(catalog, q, DefaultPage, DefaultLimit)
        IN  /\ req = NoRequest
            /\ req' = [op |-> "search", q |-> q, page |-> DefaultPage,
                       limit |-> DefaultLimit]
            /\ resp' = out.resp
            /\ query_words' = out.query_words
            /\ query_year' = out.query_year
            /\ row_scores' = out.row_scores
            /\ scored' = out.scored
            /\ UNCHANGED catalog

ResolveRequest ==
    \E uid \in Uids :
        /\ req = NoRequest
        /\ req' = [op |-> "file", uid |-> uid]
        /\ resp' \in resolve(catalog, uid)
        /\ query_words' = <<>>
        /\ query_year' = NULL
        /\ row_scores' = <<>>
        /\ scored' = <<>>
        /\ UNCHANGED catalog

HealthRequest ==
    /\ req = NoRequest
    /\ req' = [op |-> "health"]
    /\ resp' = health(catalog)
    /\ query_words' = <<>>
    /\ query_year' = NULL
    /\ row_scores' = <<>>
    /\ scored' = <<>>
    /\ UNCHANGED catalog

\* the response has been sent: the handler's locals are gone, the table is as it was
Respond ==
    /\ req # NoRequest
    /\ req' = NoRequest
    /\ resp' = NoResponse
    /\ query_words' = <<>>
    /\ query_year' = NULL
    /\ row_scores' = <<>>
    /\ scored' = <<>>
    /\ UNCHANGED catalog

Next ==
    \/ SearchRequest
    \/ DefaultSearchRequest
    \/ ResolveRequest
    \/ HealthRequest
    \/ Respond

Spec == Init /\ [][Next]_vars

(***************************************************************************)
(* Properties.                                                             *)
(***************************************************************************)
IsSearch == req.op = "search"

\* a search request that passed the parameter validation
ValidSearch == IsSearch /\ search_params_valid(req.q, req.page, req.limit)

SearchOk == IsSearch /\ resp.status = 200

Rows == 1..Len(catalog)

\* the rows of the table whose score for the current query is above 0
Matching == {i \in Rows : RecordScore(req.q, catalog[i]) > 0}

\* the least k with k * d >= n
PagesNeeded(n, d) == CHOOSE k \in 0..n : k * d >= n /\ \A j \in 0..n : j * d >= n => k <= j

InsertAt(ws, i, t) == SubSeq(ws, 1, i) \o <<t>> \o SubSeq(ws, i + 1, Len(ws))

\* ------------------------------------------------------------------ C1
\* C1 as stated: when no row scores above 0 for the query, a valid search
\* answers total_results = 0, total_pages = 0 and results = [].
C1_ZeroResultsZeroPages ==
    (ValidSearch /\ Matching = {}) =>
        /\ resp.status = 200
        /\ resp.total_results = 0
        /\ resp.total_pages = 0
        /\ resp.results = <<>>

\* C1 amended: when no row scores above 0 for the query, a valid search for
\* any page answers total_results = 0, total_pages = 1, results = [] and
\* reports page = 1.
C1_ZeroResultsOnePage ==
    (ValidSearch /\ Matching = {}) =>
        /\ resp.status = 200
        /\ resp.total_results = 0
        /\ resp.total_pages = 1
        /\ resp.page = 1
        /\ resp.results = <<>>

\* a search for a page beyond the first, over a table with searchable rows,
\* none of which scores above 0
C1_Witness ==
    /\ ValidSearch
    /\ Matching = {}
    /\ SelectSearchRows(catalog) # <<>>
    /\ req.page > 1
    /\ resp.status = 200

\* ------------------------------------------------------------------ C2
\* the tokens of length >= 2 of the normalized query
SignificantTokens(q) == SelectSeq(Split(normalize(q)), LAMBDA w : Len(w) >= 2)

\* C2: a search whose raw query is empty or whitespace-only, or whose
\* normalized query has no token of length >= 2, is answered with a 4xx
\* error and never with a success response.
C2_DegenerateQueryRejected ==
    (IsSearch /\ (Strip(req.q) = <<>> \/ SignificantTokens(req.q) = <<>>)) =>
        (resp.status >= 400 /\ resp.status <= 499)

\* ------------------------------------------------------------------ C3
\* the responses for pages 1..last of the current query and limit
PageResponses(last) ==
    [p \in 1..last |-> search(catalog, req.q, p, req.limit).resp]

\* C3: with N >= 1 scored candidates and limit P, the results of pages
\* 1..ceil(N/P), concatenated in order, are the ranked candidates, each
\* exactly once; every page but the last holds exactly P results.
C3_PagesCoverRanking ==
    (SearchOk /\ resp.total_results >= 1) =>
        LET last == PagesNeeded(resp.total_results, req.limit)
            pages == PageResponses(last)
            all == Concat([p \in 1..last |-> pages[p].results])
        IN  /\ all = PopScores(scored)
            /\ Len(all) = Cardinality(Matching)
            /\ \A i, j \in 1..Len(all) : all[i].uid = all[j].uid => i = j
            /\ \A p \in 1..(last - 1) : Len(pages[p].results) = req.limit
            /\ Len(pages[last].results) >= 1
            /\ \A p \in 1..last : pages[p].page = p
            /\ resp = pages[resp.page]

\* three candidates served two per page: a full page and a shorter last one
C3_Witness ==
    /\ SearchOk
    /\ resp.total_results = 3
    /\ req.limit = 2
    /\ req.page = 2
    /\ Len(resp.results) = 1

\* ------------------------------------------------------------------ C4
\* C4: when some row scores above 0 and the requested page is beyond the
\* last one, the search succeeds, reports page = total_pages and returns
\* the (non-empty) results of page total_pages.
C4_PageClampedToLast ==
    (ValidSearch /\ Matching # {}
        /\ req.page > PagesNeeded(Cardinality(Matching), req.limit)) =>
        /\ resp.status = 200
        /\ resp.total_pages = PagesNeeded(Cardinality(Matching), req.limit)
        /\ resp.page = resp.total_pages
        /\ resp.results # <<>>
        /\ resp.results =
              search(catalog, req.q, resp.total_pages, req.limit).resp.results
        /\ resp.results[Len(resp.results)] = PopScore(scored[Len(scored)])

\* page 3 requested when only two pages exist
C4_Witness ==
    /\ SearchOk
    /\ resp.total_results >= 1
    /\ resp.total_pages = 2
    /\ req.page = 3

\* ------------------------------------------------------------------ C5
\* the row of the table a candidate was built from
RowOf(c) == CHOOSE i \in Rows : catalog[i].uid = c.uid

\* the score the handler computed for the k-th element of scored
ScoreAt(k) ==
    LET r == CHOOSE j \in 1..Len(row_scores) : row_scores[j].uid = scored[k].uid
    IN  row_scores[r].score

\* C5: the paginated sequence holds exactly the rows scoring above 0, each
\* with its score, by score descending, rows of equal score in table order;
\* total_results counts them and every returned result is one of them.
C5_RankingFilteredSortedStable ==
    SearchOk =>
        /\ \A k \in 1..Len(scored) :
              /\ \E i \in Rows : catalog[i].uid = scored[k].uid
              /\ \E j \in 1..Len(row_scores) : row_scores[j].uid = scored[k].uid
              /\ ScoreAt(k) > 0
              /\ ScoreAt(k) = RecordScore(req.q, catalog[RowOf(scored[k])])
        /\ {RowOf(scored[k]) : k \in 1..Len(scored)} = Matching
        /\ {scored[k].uid : k \in 1..Len(scored)} =
              {row_scores[j].uid : j \in {i \in 1..Len(row_scores) : row_scores[i].score > 0}}
        /\ Len(scored) = Cardinality(Matching)
        /\ resp.total_results = Cardinality(Matching)
        /\ \A k, l \in 1..Len(scored) :
              k < l => \/ ScoreAt(k) > ScoreAt(l)
                       \/ /\ ScoreAt(k) = ScoreAt(l)
                          /\ RowOf(scored[k]) < RowOf(scored[l])
        /\ \A r \in 1..Len(resp.results) :
              \E k \in 1..Len(scored) : PopScore(scored[k]) = resp.results[r]

\* a ranking with a tie, a strictly lower candidate and an excluded row
C5_Witness ==
    /\ SearchOk
    /\ Len(scored) >= 3
    /\ ScoreAt(1) = ScoreAt(2)
    /\ ScoreAt(2) > ScoreAt(3)
    /\ \E j \in 1..Len(row_scores) : row_scores[j].score < 0

\* ------------------------------------------------------------------ C6
ScenarioQuery == Str("inception 1999")

ScenarioInRanking(score) ==
    \E k \in 1..Len(scored) : scored[k].uid = M1.uid /\ ScoreAt(k) = score

ScenarioSearched ==
    /\ SearchOk
    /\ req.q = ScenarioQuery
    /\ \E i \in Rows : catalog[i] = M1

\* C6 as stated: for the record "Inception 2010 1080p" / "inception.mkv"
\* and the query "inception 1999" the year hint is "1999", it does not
\* occur in the haystack, and the score is 40.
C6_ScenarioScore40 ==
    ScenarioSearched =>
        /\ query_year = Some(Str("1999"))
        /\ ~Contains(Combined(M1), Str("1999"))
        /\ ScenarioInRanking(40)

\* C6 amended: ... the year hint is "1999", it does not occur in the
\* haystack, and the score is 50 - 10 + 10 (the 1080p boost) = 50.
C6_ScenarioScore50 ==
    ScenarioSearched =>
        /\ query_words = <<Str("inception"), Str("1999")>>
        /\ query_year = Some(Str("1999"))
        /\ ~Contains(Combined(M1), Str("1999"))
        /\ ScenarioInRanking(50)

C6_Witness == ScenarioSearched /\ scored # <<>>

\* ------------------------------------------------------------------ C7
\* the positions of the one-character tokens of a normalized text
SingleCharAt(text) ==
    {i \in 1..Len(text) :
        /\ text[i] # Space
        /\ (i = 1 \/ text[i - 1] = Space)
        /\ (i = Len(text) \/ text[i + 1] = Space)}

\* the query with its one-character tokens removed
DropSingles(q) == Join(SignificantTokens(q))

\* C7 as stated: every query token has length >= 2, and every row scores
\* the same for the query and for the query without its one-character
\* tokens.
C7_SinglesDiscarded ==
    SearchOk =>
        /\ \A k \in 1..Len(query_words) : Len(query_words[k]) >= 2
        /\ \A i \in Rows :
              RecordScore(req.q, catalog[i]) = RecordScore(DropSingles(req.q), catalog[i])

\* C7 amended: the query tokens are all the whitespace-separated pieces of
\* the normalized query, one-character pieces included; for every row the
\* score of the query is the score of the query without its one-character
\* tokens plus 50 for each one-character non-digit token that occurs in the
\* row's haystack.
C7_SinglesKept ==
    SearchOk =>
        LET q_norm == normalize(req.q)
        IN  /\ Join(query_words) = q_norm
            /\ \A k \in 1..Len(query_words) :
                  Len(query_words[k]) >= 1 /\ ~Contains(query_words[k], <<Space>>)
            /\ \A i \in Rows :
                  RecordScore(req.q, catalog[i]) =
                      RecordScore(DropSingles(req.q), catalog[i])
                      + 50 * Cardinality({p \in SingleCharAt(q_norm) :
                                /\ q_norm[p] \notin DigitSet
                                /\ Contains(Combined(catalog[i]), <<q_norm[p]>>)})

\* a query with a one-character token found in a row's haystack, beside a
\* longer token
C7_Witness ==
    /\ SearchOk
    /\ \E k \in 1..Len(query_words) : Len(query_words[k]) >= 2
    /\ \E k \in 1..Len(query_words) :
          /\ Len(query_words[k]) = 1
          /\ \E i \in Rows : Contains(Combined(catalog[i]), query_words[k])

\* ------------------------------------------------------------------ C8
\* digits-only tokens added to the query
DigitTokens == {Str("7"), Str("1080"), Str("1999"), Str("2010")}

\* the year rule's share of a row's score for a given hint
HintPoints(hint, hay) ==
    IF hint = NULL THEN 0 ELSE IF Contains(hay, hint[1]) THEN 25 ELSE -10

\* C8: a digits-only token added anywhere in the query leaves every row's
\* score unchanged when the year hint stays what it was; when the token
\* becomes the year hint, the score changes by the year rule alone (+25 if
\* the hint occurs in the haystack, -10 if not, in place of the former
\* hint's points). It never earns the +50 of a substring match.
C8_DigitsOnlyViaYearHint ==
    SearchOk =>
        \A d \in DigitTokens, p \in 0..Len(query_words) :
            LET q2 == Join(InsertAt(query_words, p, d))
                hint2 == extract_year(normalize(q2))
            IN  /\ hint2 # query_year => hint2 = Some(d)
                /\ \A i \in Rows :
                      LET hay == Combined(catalog[i])
                      IN  RecordScore(q2, catalog[i]) =
                              RecordScore(req.q, catalog[i])
                              - HintPoints(query_year, hay) + HintPoints(hint2, hay)

\* a query with a matching word and a year hint, over a table where the
\* digits-only token "1080" occurs in a haystack
C8_Witness ==
    /\ SearchOk
    /\ query_year # NULL
    /\ \E i \in Rows :
          /\ Contains(Combined(catalog[i]), Str("1080"))
          /\ \E k \in 1..Len(query_words) :
                ~IsDigit(query_words[k]) /\ Contains(Combined(catalog[i]), query_words[k])

\* ------------------------------------------------------------------ C9
\* C9: resolve of a non-empty uid answers 404 exactly when no row has that
\* very uid, and otherwise returns the uid, post_id, channel_id and title
\* of the row whose uid equals it character for character.
C9_ResolveExactUid ==
    (req.op = "file" /\ req.uid # <<>>) =>
        /\ resp.status \in {200, 404}
        /\ resp.status = 404 <=> \A i \in Rows : catalog[i].uid # req.uid
        /\ resp.status = 200 =>
              /\ resp.uid = req.uid
              /\ \E i \in Rows :
                    /\ catalog[i].uid = req.uid
                    /\ resp.post_id = catalog[i].post_id
                    /\ resp.channel_id = catalog[i].channel_id
                    /\ resp.title = catalog[i].title

\* "ABC123" resolved in a table that also holds "abc123"
C9_Witness ==
    /\ req.op = "file"
    /\ req.uid = Str("ABC123")
    /\ resp.status = 200
    /\ resp.post_id = M2.post_id
    /\ \E i \in Rows : catalog[i].uid = Str("abc123")

\* ----------------------------------------------------------------- C10
\* non-numeric tokens added to the query
WordTokens == {Str("inception"), Str("a"), Str("1080p"), Str("mkv"), Str("hindi")}

\* C10: adding a non-numeric token that occurs in a row's haystack, anywhere
\* in the query, leaves the year hint as it was and never gives that row a
\* lower score.
C10_MatchingTokenNeverLowers ==
    SearchOk =>
        \A t \in WordTokens, p \in 0..Len(query_words) :
            LET q2 == Join(InsertAt(query_words, p, t))
            IN  /\ extract_year(normalize(q2)) = query_year
                /\ \A i \in Rows :
                      Contains(Combined(catalog[i]), t) =>
                          RecordScore(q2, catalog[i]) >= RecordScore(req.q, catalog[i])

\* a query with a year hint and a word, over a table with a row whose
\* haystack holds one of the added tokens
C10_Witness ==
    /\ SearchOk
    /\ query_year # NULL
    /\ Len(query_words) >= 2
    /\ \E i \in Rows, t \in WordTokens :
          /\ Contains(Combined(catalog[i]), t)
          /\ RecordScore(req.q, catalog[i]) > 0

====
